---- MODULE Spec2Model ----
(***************************************************************************)
(* sortem.py: move the image files of a source tree into a date-partitioned *)
(* target tree (target/YYYY/MM/DD/<name>), delete zero-size files, and put   *)
(* files without usable EXIF date, and exact duplicates, into               *)
(* target/outliers.                                                         *)
(*                                                                         *)
(* The filesystem is a function from paths (sequences of path components)   *)
(* to nodes.  run() is cut into one action per filesystem operation.        *)
(* rename() has POSIX semantics (an existing destination file is replaced); *)
(* every unlink, rename, mkdir and read may also fail with an OSError, which *)
(* covers platforms on which rename onto an existing file raises.           *)
(***************************************************************************)
EXTENDS Integers, Sequences, FiniteSets, TLC

\* ------------------------------------------------------------------ bounds
\* most regular files in the initial source tree
MaxFiles == 2

\* longest path the traversal is followed to (components)
MaxDepth == 5

\* ------------------------------------------------------------------ paths
NoPath == <<>>                     \* Python None where a Path is expected

Parent(p) == SubSeq(p, 1, Len(p) - 1)

Name(p) == p[Len(p)]

Join(p, name) == Append(p, name)

IsPrefix(a, b) == Len(a) <= Len(b) /\ SubSeq(b, 1, Len(a)) = a

\* the entry a path names once every symbolic link on the way, the last
\* component included, is followed (what stat(), open() and iterdir() use)
RECURSIVE Realpath(_, _)
Realpath(fsys, p) ==
    IF p = <<>> THEN <<>>
    ELSE LET q == Join(Realpath(fsys, Parent(p)), Name(p))
         IN  IF q \in DOMAIN fsys /\ fsys[q].kind = "link"
             THEN Realpath(fsys, fsys[q].to)
             ELSE q

\* the entry a path names when its last component is not followed (what
\* lstat(), rename() and unlink() use)
Lpath(fsys, p) == IF p = <<>> THEN <<>> ELSE Join(Realpath(fsys, Parent(p)), Name(p))

\* Path.exists(), is_dir(), is_file() follow symbolic links
Exists(fsys, p) == Realpath(fsys, p) \in DOMAIN fsys

IsDir(fsys, p) ==
    p = <<>> \/ LET r == Realpath(fsys, p) IN r \in DOMAIN fsys /\ fsys[r].kind = "dir"

IsFile(fsys, p) ==
    LET r == Realpath(fsys, p) IN r \in DOMAIN fsys /\ fsys[r].kind = "file"

\* Path.is_symlink() does not
IsSymlink(fsys, p) ==
    LET l == Lpath(fsys, p) IN l \in DOMAIN fsys /\ fsys[l].kind = "link"

\* what stat() and open() reach through the path
Node(fsys, p) == fsys[Realpath(fsys, p)]

\* Path.iterdir(): the entries of the directory, each as dir / name
Iterdir(fsys, dir) ==
    LET r == Realpath(fsys, dir)
    IN  {Join(dir, Name(q)) : q \in {e \in DOMAIN fsys : Len(e) = Len(r) + 1 /\ Parent(e) = r}}

\* all orders in which a directory listing can return the entries of S
Orderings(S) ==
    {s \in [1..Cardinality(S) -> S] : \A i, j \in 1..Cardinality(S) : s[i] = s[j] => i = j}

\* ------------------------------------------------------------- file content
\* an EXIF date field: <<year, month, day>>, or NoField when the key is missing
NoField == <<>>

Field(y, m, day) == <<y, m, day>>

NoContent == [size |-> 0, image |-> NoField, photo |-> NoField, body |-> 0]

cEmpty == NoContent

cPlain == [size |-> 1, image |-> NoField, photo |-> NoField, body |-> 1]

cBad == [size |-> 2, image |-> Field(0, 0, 0), photo |-> Field(2022, 11, 20), body |-> 1]

cMar1 == [size |-> 2, image |-> Field(2023, 3, 5), photo |-> NoField, body |-> 1]

cMar2 == [size |-> 2, image |-> Field(2023, 3, 5), photo |-> NoField, body |-> 2]

cNov == [size |-> 2, image |-> NoField, photo |-> Field(2022, 11, 20), body |-> 1]

Contents == {cEmpty, cPlain, cBad, cMar1, cMar2, cNov}

DirNode == [kind |-> "dir", content |-> NoContent, to |-> NoPath]

FileNode(c) == [kind |-> "file", content |-> c, to |-> NoPath]

\* a symbolic link to the path p
LinkNode(p) == [kind |-> "link", content |-> NoContent, to |-> p]

\* ------------------------------------------------------------ get_datetime
IsLeap(y) == (y % 4 = 0 /\ y % 100 # 0) \/ y % 400 = 0

DaysIn(y, m) ==
    IF m = 2 THEN (IF IsLeap(y) THEN 29 ELSE 28)
    ELSE IF m \in {4, 6, 9, 11} THEN 30 ELSE 31

\* datetime.strptime(dt, '%Y:%m:%d %H:%M:%S') accepts the date
Strptime(dt) ==
    /\ dt # NoField
    /\ dt[1] \in 1..9999
    /\ dt[2] \in 1..12
    /\ dt[3] \in 1..DaysIn(dt[1], dt[2])

\* Exif.Image.DateTime if the key is there, else Exif.Photo.DateTimeOriginal;
\* a missing second key or an unparsable value raises
get_datetime(c) ==
    LET dt == IF c.image # NoField THEN c.image ELSE c.photo
    IN  IF Strptime(dt)
        THEN [ok |-> TRUE, year |-> dt[1], month |-> dt[2], day |-> dt[3]]
        ELSE [ok |-> FALSE, year |-> 0, month |-> 0, day |-> 0]

\* ---------------------------------------------------------------- hashing
HexDigit(n) ==
    <<"0", "1", "2", "3", "4", "5", "6", "7", "8", "9", "a", "b", "c", "d", "e", "f">>[n + 1]

Hex2(n) == HexDigit((n \div 16) % 16) \o HexDigit(n % 16)

\* hashlib.blake2b(bytes).hexdigest(): a function of the whole content,
\* without collisions among the contents of the model
FieldSum(fld) == IF fld = NoField THEN 0 ELSE 5 + fld[1] + fld[2] * 31 + fld[3] * 7

hexdigest(c) ==
    Hex2((c.size * 97 + c.body * 59 + FieldSum(c.image) + 3 * FieldSum(c.photo)) % 256)

\* ------------------------------------------------------ create_if_required
\* the format spec :02 left out
Pad2Unpadded(n) == ToString(n)

\* f'{n:02}'
Pad2(n) == IF n < 10 THEN "0" \o ToString(n) ELSE ToString(n)

\* target / f'{year}/{month:02}/{day:02}'
DatePath(t, dt) == t \o <<ToString(dt.year), Pad2(dt.month), Pad2(dt.day)>>

Prefixes(p) == {SubSeq(p, 1, n) : n \in 1..Len(p)}

\* Path.mkdir() without parents=True, the ancestors taken for granted
MkdirNoParents(fsys, p) ==
    [q \in DOMAIN fsys \cup {p} |-> IF q \in DOMAIN fsys THEN fsys[q] ELSE DirNode]

\* Path.mkdir(parents=True) on an absent path
Mkdir(fsys, p) ==
    [q \in DOMAIN fsys \cup Prefixes(p) |-> IF q \in DOMAIN fsys THEN fsys[q] ELSE DirNode]

\* result: the returned path (NoPath for None), the filesystem afterwards,
\* conflict: the "already exists and is not a directory" branch was taken,
\* raised: mkdir raised (an ancestor is not a directory)
create_if_required(fsys, p) ==
    IF IsDir(fsys, p)
    THEN [result |-> p, fs |-> fsys, conflict |-> FALSE, raised |-> FALSE]
    ELSE IF Exists(fsys, p)
    THEN [result |-> NoPath, fs |-> fsys, conflict |-> TRUE, raised |-> FALSE]
    ELSE IF \E q \in Prefixes(p) : IsFile(fsys, q)
    THEN [result |-> NoPath, fs |-> fsys, conflict |-> FALSE, raised |-> TRUE]
    ELSE [result |-> p, fs |-> Mkdir(fsys, p), conflict |-> FALSE, raised |-> FALSE]

\* ------------------------------------------------------------- Path.rename
CanRename(fsys, src, dst) ==
    /\ Lpath(fsys, src) \in DOMAIN fsys
    /\ IsDir(fsys, Parent(dst))
    /\ ~ (Lpath(fsys, dst) \in DOMAIN fsys /\ fsys[Lpath(fsys, dst)].kind = "dir")

RenameFs(fsys, src, dst) ==
    LET s == Lpath(fsys, src)
        t == Lpath(fsys, dst)
    IN  [q \in (DOMAIN fsys \ {s}) \cup {t} |-> IF q = t THEN fsys[s] ELSE fsys[q]]

UnlinkFs(fsys, p) == [q \in DOMAIN fsys \ {Lpath(fsys, p)} |-> fsys[q]]

\* --------------------------------------------------------- initial states
StartingDir == <<"src">>

TargetArg == <<"tgt">>

SrcDirs == {<<"src">>, <<"src", "a">>, <<"src", "b">>, <<"src", "a", "c">>}

SrcSlots ==
    {<<"src", "x">>, <<"src", "a", "x">>, <<"src", "a", "y">>,
     <<"src", "b", "x">>, <<"src", "a", "c", "x">>}

\* the source tree: every directory, and at most MaxFiles regular files
SourceTrees ==
    UNION {[SrcDirs \cup S -> {DirNode} \cup {FileNode(c) : c \in Contents}] :
              S \in {T \in SUBSET SrcSlots : Cardinality(T) <= MaxFiles}}

IsSourceTree(t) ==
    \A p \in DOMAIN t : (t[p].kind = "dir") = (p \in SrcDirs)

Dirs(S) == [p \in S |-> DirNode]

MarDir(t) == t \o <<"2023", "03", "05">>

\* what an earlier run, or anything else, can have left at the target root t
TargetLayouts(t) ==
    LET base == Dirs({t, Join(t, "outliers")})
        dated == Dirs({t \o <<"2023">>, t \o <<"2023", "03">>, MarDir(t)})
    IN  { <<>>,
          base,
          (Join(MarDir(t), "x") :> FileNode(cMar1)) @@ dated @@ base,
          (Join(MarDir(t), "x") :> FileNode(cMar1))
             @@ (Join(MarDir(t), "x-" \o hexdigest(cMar2)) :> FileNode(cMar2))
             @@ (Join(Join(t, "outliers"), "x") :> FileNode(cPlain))
             @@ (Join(Join(t, "outliers"), "x-" \o hexdigest(cMar1)) :> FileNode(cMar1))
             @@ dated @@ base,
          (t :> FileNode(cPlain)),
          (Join(t, "outliers") :> FileNode(cPlain)) @@ Dirs({t}),
          (t \o <<"2023">> :> FileNode(cPlain)) @@ base,
          (MarDir(t) :> FileNode(cPlain)) @@ Dirs({t \o <<"2023">>, t \o <<"2023", "03">>}) @@ base }

\* ------------------------------------------------------------------ state
VARIABLES
    fs,           \* the filesystem: path -> node
    pc,           \* position in run(): "target", "outliers", "pop", "stat",
                  \* "unlink", "exif", "quarantine", "mkdir", "check", "rename",
                  \* "done" (run returned), "aborted" (an exception left run)
    err,          \* the exception that left run(), "none" until then
    target_dir,   \* the --target-dir argument, later the date directory
    target,
    outliers,
    directories,
    d,
    files,
    f,
    f_datetime,
    target_file,
    decision,     \* branch taken for f
    fs0,          \* history: the filesystem when run() was called
    log,          \* history: the unlinks and renames performed, in order
    reads,        \* history: the files get_datetime was called on
    conflicted,   \* history: create_if_required hit a non-directory
    enqueued      \* history: every path appended to directories, in order

vars ==
    <<fs, pc, err, target_dir, target, outliers, directories, d, files, f,
      f_datetime, target_file, decision, fs0, log, reads, conflicted, enqueued>>

NoDate == [ok |-> FALSE, year |-> 0, month |-> 0, day |-> 0]

\* run(starting_dir, target_dir, log_level) is called on one of the trees
InitWith(trees, arg) ==
    /\ fs0 \in trees
    /\ fs = fs0
    /\ pc = "target"
    /\ err = "none"
    /\ target_dir = arg
    /\ target = NoPath
    /\ outliers = NoPath
    /\ directories = <<>>
    /\ d = NoPath
    /\ files = <<>>
    /\ f = NoPath
    /\ f_datetime = NoDate
    /\ target_file = NoPath
    /\ decision = "none"
    /\ log = <<>>
    /\ reads = {}
    /\ conflicted = FALSE
    /\ enqueued = <<>>

\* the target root outside the source tree, no symbolic links
Init ==
    InitWith({src @@ tgt : src \in {t \in SourceTrees : IsSourceTree(t)},
                          tgt \in TargetLayouts(TargetArg)},
             TargetArg)

\* ---------------------------------------------------------------- actions
\* the exception logged and the file skipped
RaiseSkip(e) ==
    /\ pc' = "stat"
    /\ err' = e
    /\ UNCHANGED <<fs, target_dir, target, outliers, directories, d, files, f,
                   f_datetime, target_file, decision, fs0, log, reads, conflicted, enqueued>>

\* an exception nothing in run() catches: it leaves run(), nothing else changes
Raise(e) ==
    /\ pc' = "aborted"
    /\ err' = e
    /\ UNCHANGED <<fs, target_dir, target, outliers, directories, d, files, f,
                   f_datetime, target_file, decision, fs0, log, reads, conflicted, enqueued>>

\* line 57: target = create_if_required(target_dir)
CreateTarget ==
    /\ pc = "target"
    /\ LET r == create_if_required(fs, target_dir)
       IN  \E ok \in BOOLEAN :
             IF r.raised \/ (~ok /\ r.fs # fs)
             THEN Raise("OSError")
             ELSE /\ fs' = r.fs
                  /\ target' = r.result
                  /\ conflicted' = (conflicted \/ r.conflict)
                  /\ pc' = "outliers"
                  /\ UNCHANGED <<err, target_dir, outliers, directories, d, files, f,
                                 f_datetime, target_file, decision, fs0, log, reads, enqueued>>

\* lines 60-63: outliers = create_if_required(target / 'outliers');
\* directories = [starting_dir].  None / 'outliers' is a TypeError.
CreateOutliers ==
    /\ pc = "outliers"
    /\ IF target = NoPath
       THEN Raise("TypeError")
       ELSE LET r == create_if_required(fs, Join(target, "outliers"))
            IN  \E ok \in BOOLEAN :
                  IF r.raised \/ (~ok /\ r.fs # fs)
                  THEN Raise("OSError")
                  ELSE /\ fs' = r.fs
                       /\ outliers' = r.result
                       /\ conflicted' = (conflicted \/ r.conflict)
                       /\ directories' = <<StartingDir>>
                       /\ enqueued' = <<StartingDir>>
                       /\ pc' = "pop"
                       /\ UNCHANGED <<err, target_dir, target, d, files, f,
                                      f_datetime, target_file, decision, fs0, log, reads>>

\* line 67: [x for x in d.iterdir() if x.is_dir()]
SubDirs(fsys, dir) == {p \in Iterdir(fsys, dir) : IsDir(fsys, p)}

\* line 78 without "and not x.is_symlink()"
RegularFilesNoLinkTest(fsys, dir) == {p \in Iterdir(fsys, dir) : IsFile(fsys, p)}

\* line 78: [x for x in d.iterdir() if x.is_file() and not x.is_symlink()]
RegularFiles(fsys, dir) ==
    {p \in Iterdir(fsys, dir) : IsFile(fsys, p) /\ ~ IsSymlink(fsys, p)}

\* = instead of += in line 67
EnqueueReplace(dirs, subdirs) == subdirs

\* the subdirectories put in front of the pending list (depth first)
EnqueueFront(dirs, subdirs) == subdirs \o Tail(dirs)

\* line 65: directories.pop(0); line 67: directories += ...
Enqueue(dirs, subdirs) == Tail(dirs) \o subdirs

\* lines 64-78: the while test, the pop and the two listings of d
Pop ==
    /\ pc = "pop"
    /\ IF directories = <<>>
       THEN /\ pc' = "done"
            /\ UNCHANGED <<fs, err, target_dir, target, outliers, directories, d, files, f,
                           f_datetime, target_file, decision, fs0, log, reads, conflicted, enqueued>>
       ELSE IF ~ IsDir(fs, Head(directories))
       THEN Raise("OSError")
       ELSE /\ \A p \in SubDirs(fs, Head(directories)) : Len(p) <= MaxDepth
            /\ d' = Head(directories)
            /\ \E ds \in Orderings(SubDirs(fs, Head(directories))) :
                 /\ directories' = Enqueue(directories, ds)
                 /\ enqueued' = enqueued \o ds
            /\ \E fl \in Orderings(RegularFiles(fs, Head(directories))) :
                 files' = fl
            /\ pc' = "stat"
            /\ UNCHANGED <<fs, err, target_dir, target, outliers, f,
                           f_datetime, target_file, decision, fs0, log, reads, conflicted>>

\* the size test left out
AfterStatNoTest(size) == "exif"

\* line 85: the branch on f_stat.st_size
AfterStat(size) == IF size = 0 THEN "unlink" ELSE "exif"

\* lines 79-85: the next f of the for loop, f.stat() and the size test
Stat ==
    /\ pc = "stat"
    /\ IF files = <<>>
       THEN /\ pc' = "pop"
            /\ UNCHANGED <<fs, err, target_dir, target, outliers, directories, d, files, f,
                           f_datetime, target_file, decision, fs0, log, reads, conflicted, enqueued>>
       ELSE /\ f' = Head(files)
            /\ files' = Tail(files)
            /\ IF ~ Exists(fs, Head(files))
               THEN pc' = "aborted" /\ err' = "OSError"
               ELSE pc' = AfterStat(Node(fs, Head(files)).content.size) /\ err' = err
            /\ UNCHANGED <<fs, target_dir, target, outliers, directories, d,
                           f_datetime, target_file, decision, fs0, log, reads, conflicted, enqueued>>

Event(op, dec, src, dst, fsys) ==
    [op |-> op, decision |-> dec, src |-> src, dst |-> dst, replaced |-> Exists(fsys, dst)]

\* lines 88-89: f.unlink(); continue
Unlink ==
    /\ pc = "unlink"
    /\ \E ok \in BOOLEAN :
         IF ~ ok
         THEN Raise("OSError")
         ELSE /\ fs' = UnlinkFs(fs, f)
              /\ log' = Append(log, [op |-> "unlink", decision |-> "deleted", src |-> f,
                                     dst |-> NoPath, replaced |-> FALSE])
              /\ pc' = "stat"
              /\ UNCHANGED <<err, target_dir, target, outliers, directories, d, files, f,
                             f_datetime, target_file, decision, fs0, reads, conflicted, enqueued>>

\* lines 92-94: f_datetime = get_datetime(f.absolute()), any exception caught
GetDatetime ==
    /\ pc = "exif"
    /\ reads' = reads \cup {f}
    /\ LET r == get_datetime(Node(fs, f).content)
       IN  IF r.ok
           THEN f_datetime' = r /\ pc' = "mkdir"
           ELSE f_datetime' = f_datetime /\ pc' = "quarantine"
    /\ UNCHANGED <<fs, err, target_dir, target, outliers, directories, d, files, f,
                   target_file, decision, fs0, log, conflicted, enqueued>>

\* lines 95-97: f.rename(outliers / f.name); continue.
\* None / f.name is a TypeError, raised inside the handler.
Quarantine ==
    /\ pc = "quarantine"
    /\ IF outliers = NoPath
       THEN Raise("TypeError")
       ELSE LET dst == Join(outliers, Name(f))
            IN  \E ok \in BOOLEAN :
                  IF ~ ok \/ ~ CanRename(fs, f, dst)
                  THEN Raise("OSError")
                  ELSE /\ fs' = RenameFs(fs, f, dst)
                       /\ log' = Append(log, Event("rename", "quarantined", f, dst, fs))
                       /\ pc' = "stat"
                       /\ UNCHANGED <<err, target_dir, target, outliers, directories, d,
                                      files, f, f_datetime, target_file, decision, fs0,
                                      reads, conflicted, enqueued>>

\* line 99: target_dir = create_if_required(target / f'{year}/{month:02}/{day:02}')
CreateDateDir ==
    /\ pc = "mkdir"
    /\ LET r == create_if_required(fs, DatePath(target, f_datetime))
       IN  \E ok \in BOOLEAN :
             IF r.raised \/ (~ok /\ r.fs # fs)
             THEN Raise("OSError")
             ELSE /\ fs' = r.fs
                  /\ target_dir' = r.result
                  /\ conflicted' = (conflicted \/ r.conflict)
                  /\ pc' = "check"
                  /\ UNCHANGED <<err, target, outliers, directories, d, files, f,
                                 f_datetime, target_file, decision, fs0, log, reads, enqueued>>

\* lines 110, 114: f'{f.name}-{original_hash.hexdigest()}'
Suffixed(name, digest) == name \o "-" \o digest

\* != instead of == in line 108
ResolveSwapped(out, tdir, name, original_hash, target_hash) ==
    IF original_hash # target_hash
    THEN [file |-> Join(out, Suffixed(name, original_hash)), decision |-> "quarantined_suffixed"]
    ELSE [file |-> Join(tdir, Suffixed(name, original_hash)), decision |-> "placed_suffixed"]

\* target_hash instead of original_hash in the suffix of line 114
ResolveTargetHash(out, tdir, name, original_hash, target_hash) ==
    IF original_hash = target_hash
    THEN [file |-> Join(out, Suffixed(name, original_hash)), decision |-> "quarantined_suffixed"]
    ELSE [file |-> Join(tdir, Suffixed(name, target_hash)), decision |-> "placed_suffixed"]

\* lines 108-115: the destination once both hashes are known
Resolve(out, tdir, name, original_hash, target_hash) ==
    IF original_hash = target_hash
    THEN [file |-> Join(out, Suffixed(name, original_hash)), decision |-> "quarantined_suffixed"]
    ELSE [file |-> Join(tdir, Suffixed(name, original_hash)), decision |-> "placed_suffixed"]

\* lines 100-115: target_file = target_dir / f.name and, if it exists, the
\* comparison of the two hashes.  None / f.name, and None / f'...', are
\* TypeErrors; read_bytes() can fail.
Collision ==
    /\ pc = "check"
    /\ IF target_dir = NoPath
       THEN Raise("TypeError")
       ELSE LET cand == Join(target_dir, Name(f))
            IN  IF ~ Exists(fs, cand)
                THEN /\ target_file' = cand
                     /\ decision' = "placed"
                     /\ pc' = "rename"
                     /\ UNCHANGED <<fs, err, target_dir, target, outliers, directories, d,
                                    files, f, f_datetime, fs0, log, reads, conflicted, enqueued>>
                ELSE \E ok \in BOOLEAN :
                       IF ~ ok \/ ~ IsFile(fs, f) \/ ~ IsFile(fs, cand)
                       THEN Raise("OSError")
                       ELSE LET r == Resolve(outliers, target_dir, Name(f),
                                             hexdigest(Node(fs, f).content),
                                             hexdigest(Node(fs, cand).content))
                            IN  IF r.decision = "quarantined_suffixed" /\ outliers = NoPath
                                THEN Raise("TypeError")
                                ELSE /\ target_file' = r.file
                                     /\ decision' = r.decision
                                     /\ pc' = "rename"
                                     /\ UNCHANGED <<fs, err, target_dir, target, outliers,
                                                    directories, d, files, f, f_datetime,
                                                    fs0, log, reads, conflicted, enqueued>>

\* line 118: f.rename(target_file)
Place ==
    /\ pc = "rename"
    /\ \E ok \in BOOLEAN :
         IF ~ ok \/ ~ CanRename(fs, f, target_file)
         THEN Raise("OSError")
         ELSE /\ fs' = RenameFs(fs, f, target_file)
              /\ log' = Append(log, Event("rename", decision, f, target_file, fs))
              /\ pc' = "stat"
              /\ UNCHANGED <<err, target_dir, target, outliers, directories, d, files, f,
                             f_datetime, target_file, decision, fs0, reads, conflicted, enqueued>>

Next ==
    \/ CreateTarget
    \/ CreateOutliers
    \/ Pop
    \/ Stat
    \/ Unlink
    \/ GetDatetime
    \/ Quarantine
    \/ CreateDateDir
    \/ Collision
    \/ Place

Spec == Init /\ [][Next]_vars

\* run('src', 'src/tgt', ...): the target root is a directory of the source tree
NestedArg == <<"src", "tgt">>

SmallSlots == {<<"src", "x">>, <<"src", "a", "x">>}

InitNested ==
    InitWith({src @@ tgt : src \in {t \in SourceTrees : /\ IsSourceTree(t)
                                                        /\ DOMAIN t \subseteq SrcDirs \cup SmallSlots},
                          tgt \in TargetLayouts(NestedArg)},
             NestedArg)

SpecNested == InitNested /\ [][Next]_vars

\* symbolic links in the source tree: src/ln to the file src/a/x (dangling
\* when there is no such file), src/a/up to its ancestor directory src
LinkLayouts ==
    LET ln == (<<"src", "ln">> :> LinkNode(<<"src", "a", "x">>))
        up == (<<"src", "a", "up">> :> LinkNode(<<"src">>))
    IN  {ln, up, ln @@ up}

InitLinks ==
    InitWith({src @@ lnk @@ tgt : src \in {t \in SourceTrees : /\ IsSourceTree(t)
                                                               /\ DOMAIN t \subseteq SrcDirs \cup SmallSlots},
                                 lnk \in LinkLayouts,
                                 tgt \in TargetLayouts(TargetArg)},
             TargetArg)

SpecLinks == InitLinks /\ [][Next]_vars

\* a source tree that holds output of an earlier run: a file whose own name
\* is a name with a digest suffix
RerunSlots == {<<"src", Suffixed("x", hexdigest(cMar2))>>, <<"src", "a", "x">>}

RerunTrees ==
    UNION {[SrcDirs \cup S -> {DirNode} \cup {FileNode(c) : c \in Contents}] :
              S \in {T \in SUBSET RerunSlots : Cardinality(T) <= MaxFiles}}

InitRerun ==
    InitWith({src @@ tgt : src \in {t \in RerunTrees : IsSourceTree(t)},
                          tgt \in TargetLayouts(TargetArg)},
             TargetArg)

SpecRerun == InitRerun /\ [][Next]_vars

\* ------------------------------------------------------- claim vocabulary
\* the regular files of the source tree when run() was called
SourceFiles == {p \in DOMAIN fs0 : IsFile(fs0, p) /\ IsPrefix(StartingDir, p)}

\* a file under the target root, the outliers directory included
UnderTarget(p) == IsPrefix(TargetArg, p) /\ p # TargetArg

OutliersDir == <<"tgt", "outliers">>

\* the date directory a content belongs to, written out
ExpectedDateDir(c) ==
    IF c \in {cMar1, cMar2} THEN <<"tgt", "2023", "03", "05">>
    ELSE IF c = cNov THEN <<"tgt", "2022", "11", "20">>
    ELSE NoPath

Logged(p) == \E i \in DOMAIN log : log[i].src = p

\* C1: every rename the run performs has a destination that did not exist
\* immediately before it.
NoOverwrite == \A i \in DOMAIN log : log[i].op = "rename" => ~ log[i].replaced

\* C2: when the run has completed, every source file of non-zero size has its
\* content at some path under the target root.
NoLoss ==
    pc = "done" =>
        \A p \in SourceFiles :
            fs0[p].content.size # 0 =>
                \E q \in DOMAIN fs :
                    UnderTarget(q) /\ IsFile(fs, q) /\ fs[q].content = fs0[p].content

DatePartitioning ==
    /\ [](pc = "quarantine" => ExpectedDateDir(fs[f].content) = NoPath)
    /\ [](pc = "rename" => ExpectedDateDir(fs[f].content) # NoPath)
    /\ [][(/\ pc = "rename"
           /\ pc' = "stat"
           /\ ~ Exists(fs, Join(ExpectedDateDir(fs[f].content), Name(f))))
          => LET dst == Join(ExpectedDateDir(fs[f].content), Name(f))
             IN  /\ IsDir(fs, Parent(dst))
                 /\ IsFile(fs', dst)
                 /\ fs'[dst] = fs[f]
                 /\ ~ Exists(fs', f)
                 /\ DOMAIN fs' = (DOMAIN fs \ {f}) \cup {dst}]_vars

DatePartitioningWitness ==
    /\ \E i \in DOMAIN log :
          /\ log[i].decision = "placed"
          /\ log[i].dst = <<"tgt", "2023", "03", "05", "x">>
          /\ ~ Exists(fs0, <<"tgt", "2023">>)
    /\ \E i \in DOMAIN log :
          /\ log[i].decision = "placed"
          /\ log[i].dst = <<"tgt", "2022", "11", "20", "x">>

\* C6: a source file of size 0 goes to the unlink and nowhere else; its
\* metadata has not been read, and the unlink removes that one path and
\* changes nothing else of the filesystem.
ZeroSize ==
    /\ [](pc = "unlink" => fs[f].content.size = 0 /\ f \notin reads)
    /\ [](pc \in {"exif", "quarantine", "mkdir", "check", "rename"}
            => fs[f].content.size # 0)
    /\ [][pc = "unlink" =>
            \/ pc' = "aborted" /\ fs' = fs
            \/ /\ pc' = "stat"
               /\ DOMAIN fs' = DOMAIN fs \ {f}
               /\ \A q \in DOMAIN fs' : fs'[q] = fs[q]
               /\ reads' = reads]_vars

ZeroSizeWitness ==
    /\ \E i \in DOMAIN log : log[i].decision = "deleted"
    /\ \E i \in DOMAIN log : log[i].decision = "placed"

\* C7: when metadata extraction has failed for a file, then unless the rename
\* itself fails the file is moved to outliers/<name>, no directory is
\* created, and the run goes on with the next file.
ExtractionFailureRecovered ==
    [][(pc = "quarantine" /\ err' # "OSError")
       => /\ pc' = "stat"
          /\ ~ Exists(fs', f)
          /\ IsFile(fs', Join(OutliersDir, Name(f)))
          /\ fs'[Join(OutliersDir, Name(f))] = fs[f]
          /\ DOMAIN fs' = (DOMAIN fs \ {f}) \cup {Join(OutliersDir, Name(f))}]_vars

\* C8: when the rename of line 118 succeeds for a file whose name is taken in
\* its date directory by a file of another digest, the file is afterwards at
\* datePath/<name>-<its own digest>, and the file at datePath/<name> is as before.
ContentDistinctCollision ==
    [][LET taken == Join(ExpectedDateDir(fs[f].content), Name(f))
           dst == Join(ExpectedDateDir(fs[f].content),
                       Name(f) \o "-" \o hexdigest(fs[f].content))
       IN  ( /\ pc = "rename"
             /\ pc' = "stat"
             /\ IsFile(fs, taken)
             /\ hexdigest(fs[taken].content) # hexdigest(fs[f].content) )
           => /\ IsFile(fs', dst)
              /\ fs'[dst] = fs[f]
              /\ ~ Exists(fs', f)
              /\ IsFile(fs', taken)
              /\ fs'[taken] = fs[taken]]_vars

ContentDistinctCollisionWitness ==
    \E i \in DOMAIN log :
        /\ log[i].decision = "placed_suffixed"
        /\ log[i].dst = <<"tgt", "2023", "03", "05", "x-" \o hexdigest(fs0[log[i].src].content)>>
        /\ IsFile(fs, <<"tgt", "2023", "03", "05", "x">>)
        /\ IsFile(fs, log[i].dst)

\* C9: once create_if_required has found a non-directory at its path, no
\* file is moved or deleted and nothing is created.
ConflictIsFatal == [][conflicted => fs' = fs]_vars

\* C10: an operation that raises ends the run with the filesystem as it was;
\* nothing runs after that; the file in hand is still at its source path with
\* its content and the files after it have not been touched.
FailFast ==
    /\ [][err' # "none" =>
            /\ pc' = "aborted" /\ fs' = fs /\ log' = log
            /\ pc \in {"unlink", "quarantine", "mkdir", "check", "rename"} =>
                  /\ IsFile(fs', f) /\ fs'[f] = fs0[f] /\ ~ Logged(f)
                  /\ \A i \in DOMAIN files :
                        IsFile(fs', files[i]) /\ fs'[files[i]] = fs0[files[i]]
                        /\ ~ Logged(files[i])]_vars
    /\ [][pc # "aborted"]_vars
    /\ []((pc = "aborted") = (err # "none"))

FailFastWitness ==
    /\ pc = "aborted"
    /\ err = "OSError"
    /\ f # NoPath
    /\ fs[f].content.size # 0
    /\ files # <<>>
    /\ conflicted = FALSE

\* C11: no directory appended to the pending list is the target root or lies
\* under it (outliers and the date subtrees included), and no file is taken
\* as a source file at a path an earlier file of the run was moved to.
OutputNeverScanned ==
    /\ \A i \in DOMAIN enqueued : target # NoPath => ~ IsPrefix(target, enqueued[i])
    /\ \A i, j \in DOMAIN log : i < j => log[j].src # log[i].dst

\* C12: the pending list starts as [root] and is the not yet popped tail of
\* everything appended so far, in that order, with depths that never go
\* down; so a file is never processed after a file that lies deeper in the
\* source tree, in particular never after a file of one of its directory's
\* subdirectories.
BreadthFirst ==
    /\ enqueued # <<>> => enqueued[1] = StartingDir
    /\ \E n \in 0..Len(enqueued) : directories = SubSeq(enqueued, n + 1, Len(enqueued))
    /\ \A i, j \in DOMAIN enqueued : i < j => Len(enqueued[i]) <= Len(enqueued[j])
    /\ \A i, j \in DOMAIN log : i < j => Len(log[i].src) <= Len(log[j].src)
    /\ \A i, j \in DOMAIN log :
          IsPrefix(Parent(log[i].src), Parent(log[j].src)) /\ Parent(log[i].src) # Parent(log[j].src)
              => i < j

BreadthFirstWitness ==
    /\ pc = "done"
    /\ Len(log) = 2
    /\ log[1].src = <<"src", "b", "x">>
    /\ log[2].src = <<"src", "a", "c", "x">>

\* C13: every directory is appended to the pending list at most once, a
\* directory reached through a symbolic link counted as the directory it is
\* (without that the pending list of a finite tree cannot run empty).
EnqueuedOnce ==
    \A i, j \in DOMAIN enqueued :
        Realpath(fs0, enqueued[i]) = Realpath(fs0, enqueued[j]) => i = j

\* C14: a symbolic link of the source tree is never among the files taken
\* from a listing, never the file in hand, never read and never the source
\* of an unlink or rename, and it is at its path, unchanged, in every state
\* of the run, the last one included.
LinksExcluded ==
    /\ \A i \in DOMAIN files : ~ IsSymlink(fs, files[i])
    /\ f # NoPath => ~ IsSymlink(fs, f) /\ ~ IsSymlink(fs0, f)
    /\ \A p \in reads : ~ IsSymlink(fs0, p)
    /\ \A i \in DOMAIN log : ~ IsSymlink(fs0, log[i].src)
    /\ \A p \in DOMAIN fs0 :
          fs0[p].kind = "link" => p \in DOMAIN fs /\ fs[p] = fs0[p]

LinksExcludedWitness ==
    /\ pc = "done"
    /\ IsSymlink(fs0, <<"src", "ln">>) /\ IsFile(fs0, <<"src", "ln">>)
    /\ IsSymlink(fs, <<"src", "ln">>)
    /\ Logged(<<"src", "a", "x">>)
    /\ ~ IsFile(fs, <<"src", "a", "x">>)

\* C15: in every state of the run (the process can be stopped in any of
\* them) each source file is at its original path with its original content
\* and untouched, or has its outcome: it was deleted, or its content is at
\* the destination it was renamed to.  The files of the second kind are
\* exactly the logged ones, so at most the file in hand is in between, and
\* it is of the first kind.
AbruptStopSafe ==
    \A p \in SourceFiles :
        \/ /\ ~ Logged(p)
           /\ IsFile(fs, p) /\ fs[p] = fs0[p]
        \/ \E i \in DOMAIN log :
              /\ log[i].src = p
              /\ ~ Exists(fs, p)
              /\ \/ log[i].op = "unlink"
                 \/ /\ IsFile(fs, log[i].dst)
                    /\ fs[log[i].dst].content = fs0[p].content

\* C16: no step of the run removes a path that is under the target root
\* (outliers included) or changes what is there: the output only grows.
OutputMonotonic ==
    [][\A q \in DOMAIN fs : UnderTarget(q) => q \in DOMAIN fs' /\ fs'[q] = fs[q]]_vars

\* paths create_if_required is asked for: the target root, outliers and
\* date directories
ProbePaths ==
    {TargetArg, OutliersDir, <<"tgt", "2023", "03", "05">>, <<"tgt", "2022", "11", "20">>}

\* C17: on a path that is a directory create_if_required returns the path
\* and leaves the filesystem as it is; on an absent path, when mkdir does not
\* raise, the first call returns the path, makes it and each of its missing
\* ancestors a directory and changes nothing else, and a second call returns
\* the same path and changes nothing.
ProvisionIdempotent ==
    \A p \in ProbePaths :
        LET r1 == create_if_required(fs, p)
            r2 == create_if_required(r1.fs, p)
        IN  /\ IsDir(fs, p) => r1.result = p /\ r1.fs = fs /\ ~ r1.raised
            /\ (~ Exists(fs, p) /\ ~ r1.raised) =>
                  /\ r1.result = p
                  /\ DOMAIN r1.fs = DOMAIN fs \cup Prefixes(p)
                  /\ \A q \in Prefixes(p) : IsDir(r1.fs, q)
                  /\ \A q \in DOMAIN fs : r1.fs[q] = fs[q]
                  /\ r2.result = r1.result /\ r2.fs = r1.fs /\ ~ r2.raised

\* the run has just made tgt/2023/03/05 where not even tgt/2023 was there
ProvisionIdempotentWitness ==
    /\ pc = "check"
    /\ target_dir = <<"tgt", "2023", "03", "05">>
    /\ IsDir(fs0, TargetArg) /\ ~ Exists(fs0, <<"tgt", "2023">>)
    /\ IsDir(fs, <<"tgt", "2023">>) /\ IsDir(fs, <<"tgt", "2023", "03">>)
    /\ IsDir(fs, target_dir)
    /\ create_if_required(fs, target_dir).fs = fs
    /\ ~ Exists(fs, <<"tgt", "2022", "11", "20">>)

\* C18: once a file has been placed under its plain name, every later file
\* with the same name and the same capture date gets a digest-suffixed
\* destination, and no later step removes or changes what is at the path of
\* a plain placement.
FirstWinsPlainName ==
    /\ [](\A i, j \in DOMAIN log :
            ( /\ i < j
              /\ log[i].decision = "placed"
              /\ Name(log[j].src) = Name(log[i].src)
              /\ get_datetime(fs0[log[j].src].content) = get_datetime(fs0[log[i].src].content)
              /\ log[j].op = "rename" /\ log[j].decision # "quarantined" )
            => /\ log[j].decision \in {"placed_suffixed", "quarantined_suffixed"}
               /\ Name(log[j].dst) =
                     Suffixed(Name(log[j].src), hexdigest(fs0[log[j].src].content)))
    /\ [][\A i \in DOMAIN log :
            log[i].decision = "placed" =>
                log[i].dst \in DOMAIN fs' /\ fs'[log[i].dst] = fs[log[i].dst]]_vars

====
